---- MODULE Spec2Model ----
(***************************************************************************)
(* Realtime chat client of the repository-dashboard front end              *)
(* (src/frontend/js/ai-chat.js): the socket lifecycle with its reconnect   *)
(* and status timers, the handling of server frames, the user actions and  *)
(* the delete-current-conversation flow; and the message renderer          *)
(* (src/frontend/js/markdown-renderer.js); and the debounce helper of the  *)
(* dashboard (src/frontend/js/main.js).                                    *)
(*                                                                         *)
(* Texts are sequences of one-character strings.  One step of the model is *)
(* one handler of the page's event loop run to completion.  Time advances  *)
(* in whole seconds through Tick; a timer fires when its delay has run out.*)
(***************************************************************************)
EXTENDS Integers, Sequences, FiniteSets, TLC

\* ------------------------------------------------------------------ bounds
MaxSockets == 3      \* sockets constructed in one run
MaxMsgs    == 2      \* message elements appended to the chat container
MaxRaw     == 3      \* characters accumulated in one streamed message
MaxFlows   == 2      \* delete flows in flight at once
MaxText    == 4      \* characters of a user message handed to the renderer
MaxSegs    == 2      \* runs of text and fenced blocks in an assistant message
MaxWait    == 2      \* longest wait of a debounced function, in ticks
MaxCalls   == 3      \* calls of a debounced function

\* ------------------------------------------------------- program constants
ReconnectDelay == 3  \* setTimeout(..., 3000) in handleWebSocketClose
HideDelay      == 2  \* setTimeout(..., 2000) in handleWebSocketOpen

\* ------------------------------------------------------------ input domains
Socks   == 1..MaxSockets
Flows   == 1..MaxFlows
ConvIds == {1, 2}
NoConv  == 0         \* currentConversationId = null
NoSock  == 0         \* websocket = null

ChunkTexts  == { <<"a">>, <<" ", "b">> }
UserTexts   == { <<"a">> }
InputValues == { <<>>, <<" ">>, <<" ", "a", " ">> }   \* #chatInput.value at a send
ErrorTexts  == { "rate limited" }

HistoryEntries == [role : {"user", "assistant"}, content : UserTexts]
HistoryPayloads ==
    { <<>> } \cup { <<e>> : e \in HistoryEntries }
             \cup { <<e1, e2>> : e1 \in HistoryEntries, e2 \in HistoryEntries }

VARIABLES
    sock,                      \* readyState of every WebSocket constructed
    websocket,                 \* the socket the global `websocket` refers to
    isConnected,
    reconnectTimer,            \* per socket: the timer its close handler set
    hideTimer,                 \* per socket: the timer its open handler set
    status,                    \* #connectionStatus: [text, hidden]
    closedFor,                 \* history: seconds since a socket's close event
    manualSince,               \* history: timers running at an explicit connect
    currentUser,               \* "null" or "user"
    currentConversationId,
    currentAssistantMessage,   \* [open, pos, raw]: the streaming element
    messages,                  \* message elements of #chatMessages, in order
    welcome,                   \* .welcome-message present in #chatMessages
    typingHidden,              \* #typingIndicator has class hidden
    sidebar,                   \* #conversationsList: [st, items]
    bootList,                  \* the page-load loadConversations(): pending?
    flows,                     \* clearCurrentChat() calls: [pc, id]
    deleted,                   \* the directory: conversations it has deleted
    arrived,                   \* history: chunks received for the last stream
    streamSock,                \* history: the socket that stream was opened on
    shownConv,                 \* history: the conversation #chatMessages shows
    asked,                     \* the load_history in flight: [sock, id]
    effects,                   \* what the last step sent, showed, logged, threw
    render,                    \* the last call of processMessageContent
    deb                        \* a function wrapped by debounce(func, wait)

connVars == <<sock, websocket, isConnected, reconnectTimer, hideTimer, status,
              closedFor, manualSince>>
chatVars == <<currentUser, currentConversationId, currentAssistantMessage,
              messages, welcome, typingHidden, arrived, streamSock,
              shownConv>>
dirVars  == <<sidebar, bootList, flows, deleted>>
vars     == <<connVars, chatVars, dirVars, asked, effects, render, deb>>

\* ------------------------------------------------------------------ helpers
NoTimer  == [st |-> "none", left |-> 0]
Pending(d) == [st |-> "pending", left |-> d]
FiredTimer == [st |-> "fired", left |-> 0]

NoStream == [open |-> FALSE, pos |-> 0, raw |-> <<>>]

\* no load_history awaits its history frame
NoAsk == [sock |-> NoSock, id |-> NoConv]

NoFinal == [raw |-> <<>>, chunks |-> <<>>]
NoEffects == [sent |-> <<>>, toasts |-> <<>>, escaped |-> FALSE, logged |-> FALSE,
              finalized |-> NoFinal]
Toast(t)  == [NoEffects EXCEPT !.toasts = <<t>>]
\* the catch of handleWebSocketMessage ran: console.error
Logged    == [NoEffects EXCEPT !.logged = TRUE]

\* processMessageContent has not been called
NoRender == [isUser |-> FALSE, content |-> <<>>, parser |-> "ok", html |-> <<>>,
             threw |-> FALSE]

\* showConnectionStatus(message, isError): the text shown, never hidden
showConnectionStatus(message) == [text |-> message, hidden |-> FALSE]

\* String.prototype.trim over the model's texts (" " is the only blank)
RECURSIVE TrimLeft(_)
TrimLeft(t) == IF t # <<>> /\ Head(t) = " " THEN TrimLeft(Tail(t)) ELSE t

RECURSIVE TrimRight(_)
TrimRight(t) ==
    IF t # <<>> /\ t[Len(t)] = " " THEN TrimRight(SubSeq(t, 1, Len(t) - 1)) ELSE t

Trim(t) == TrimRight(TrimLeft(t))

\* c1 + c2 + ... + cn
RECURSIVE Flatten(_)
Flatten(cs) == IF cs = <<>> THEN <<>> ELSE Head(cs) \o Flatten(Tail(cs))

\* a handler of the event loop may start: no socket is between its error and
\* its close event (one task), no delete flow between the list and the reset
InTask ==
    \/ \E s \in Socks : sock[s] = "errored"
    \/ \E f \in Flows : flows[f].pc = "reset"

UnusedSocks == { s \in Socks : sock[s] = "unused" }
NextSock == CHOOSE s \in UnusedSocks : \A t \in UnusedSocks : s <= t

\* ------------------------------------------------------------- connection
\* connectWebSocket(): `ctorOk` is whether new WebSocket(wsUrl) returned
connectWebSocket(ctorOk) ==
    /\ UnusedSocks # {}
    /\ IF ctorOk
       THEN /\ sock' = [sock EXCEPT ![NextSock] = "connecting"]
            /\ websocket' = NextSock
            /\ status' = showConnectionStatus("Connecting...")
            /\ effects' = NoEffects
       ELSE /\ UNCHANGED <<sock, websocket>>
            /\ status' = showConnectionStatus("Connection failed")
            /\ effects' = Toast("Failed to connect to chat service")

\* a caller other than the page load and the reconnect timer opens a socket
ExplicitConnect ==
    /\ ~InTask
    /\ \E ctorOk \in BOOLEAN :
         /\ connectWebSocket(ctorOk)
         /\ manualSince' = IF ctorOk
                           THEN manualSince \cup
                                { s \in Socks : reconnectTimer[s].st = "pending"
                                                 /\ reconnectTimer[s].left > 0 }
                           ELSE manualSince
    /\ UNCHANGED <<isConnected, reconnectTimer, hideTimer, closedFor, chatVars, dirVars>>
    /\ UNCHANGED <<asked, render, deb>>

\* a variant that asks for the current conversation's history on every open
handleWebSocketOpen_reloads(s) ==
    /\ ~InTask
    /\ sock[s] = "connecting"
    /\ sock' = [sock EXCEPT ![s] = "open"]
    /\ isConnected' = TRUE
    /\ status' = showConnectionStatus("Connected")
    /\ hideTimer' = [hideTimer EXCEPT ![s] = Pending(HideDelay)]
    /\ effects' = IF currentConversationId # NoConv
                  THEN [NoEffects EXCEPT !.sent = <<"load_history">>]
                  ELSE NoEffects
    /\ UNCHANGED <<websocket, reconnectTimer, closedFor, manualSince, chatVars, dirVars>>
    /\ UNCHANGED <<asked, render, deb>>

handleWebSocketOpen(s) ==
    /\ ~InTask
    /\ sock[s] = "connecting"
    /\ sock' = [sock EXCEPT ![s] = "open"]
    /\ isConnected' = TRUE
    /\ status' = showConnectionStatus("Connected")
    /\ hideTimer' = [hideTimer EXCEPT ![s] = Pending(HideDelay)]
    /\ effects' = NoEffects
    /\ UNCHANGED <<websocket, reconnectTimer, closedFor, manualSince, chatVars, dirVars>>
    /\ UNCHANGED <<asked, render, deb>>

\* the timer of handleWebSocketOpen: hide the status element
HideTimerFire(s) ==
    /\ ~InTask
    /\ hideTimer[s] = Pending(0)
    /\ hideTimer' = [hideTimer EXCEPT ![s] = FiredTimer]
    /\ status' = [status EXCEPT !.hidden = TRUE]
    /\ effects' = NoEffects
    /\ UNCHANGED <<sock, websocket, isConnected, reconnectTimer, closedFor,
                   manualSince, chatVars, dirVars>>
    /\ UNCHANGED <<asked, render, deb>>

\* the platform fails a connection: it fires error, then close, in one task
\* a variant that opens the next socket at once, at the error event
handleWebSocketError_reconnects(s) ==
    /\ ~InTask
    /\ sock[s] \in {"connecting", "open"}
    /\ isConnected' = FALSE
    /\ IF UnusedSocks # {}
       THEN /\ sock' = [sock EXCEPT ![s] = "errored", ![NextSock] = "connecting"]
            /\ websocket' = NextSock
            /\ status' = showConnectionStatus("Connecting...")
       ELSE /\ sock' = [sock EXCEPT ![s] = "errored"]
            /\ status' = showConnectionStatus("Connection error")
            /\ UNCHANGED websocket
    /\ effects' = Toast("Chat connection error")
    /\ UNCHANGED <<reconnectTimer, hideTimer, closedFor, manualSince,
                   chatVars, dirVars>>
    /\ asked' = IF asked.sock = s THEN NoAsk ELSE asked
    /\ UNCHANGED <<render, deb>>

handleWebSocketError(s) ==
    /\ ~InTask
    /\ sock[s] \in {"connecting", "open"}
    /\ sock' = [sock EXCEPT ![s] = "errored"]
    /\ isConnected' = FALSE
    /\ status' = showConnectionStatus("Connection error")
    /\ effects' = Toast("Chat connection error")
    /\ UNCHANGED <<websocket, reconnectTimer, hideTimer, closedFor, manualSince,
                   chatVars, dirVars>>
    /\ asked' = IF asked.sock = s THEN NoAsk ELSE asked
    /\ UNCHANGED <<render, deb>>

\* close of an open socket by the peer, or the close that follows an error
handleWebSocketClose(s) ==
    /\ \/ sock[s] = "errored"
       \/ sock[s] = "open" /\ ~InTask
    /\ sock' = [sock EXCEPT ![s] = "closed"]
    /\ isConnected' = FALSE
    /\ status' = showConnectionStatus("Disconnected")
    /\ reconnectTimer' = [reconnectTimer EXCEPT ![s] = Pending(ReconnectDelay)]
    /\ closedFor' = [closedFor EXCEPT ![s] = 0]
    /\ effects' = NoEffects
    /\ UNCHANGED <<websocket, hideTimer, manualSince, chatVars, dirVars>>
    /\ asked' = IF asked.sock = s THEN NoAsk ELSE asked
    /\ UNCHANGED <<render, deb>>

\* a variant whose timer is an interval: it is armed again when it fires
ReconnectTimerFire_interval(s) ==
    /\ ~InTask
    /\ reconnectTimer[s] = Pending(0)
    /\ reconnectTimer' = [reconnectTimer EXCEPT ![s] = Pending(ReconnectDelay)]
    /\ IF ~isConnected
       THEN \E ctorOk \in BOOLEAN : connectWebSocket(ctorOk)
       ELSE UNCHANGED <<sock, websocket, status>> /\ effects' = NoEffects
    /\ UNCHANGED <<isConnected, hideTimer, closedFor, manualSince, chatVars, dirVars>>
    /\ UNCHANGED <<asked, render, deb>>

\* the timer of handleWebSocketClose
ReconnectTimerFire(s) ==
    /\ ~InTask
    /\ reconnectTimer[s] = Pending(0)
    /\ reconnectTimer' = [reconnectTimer EXCEPT ![s] = FiredTimer]
    /\ IF ~isConnected
       THEN \E ctorOk \in BOOLEAN : connectWebSocket(ctorOk)
       ELSE UNCHANGED <<sock, websocket, status>> /\ effects' = NoEffects
    /\ UNCHANGED <<isConnected, hideTimer, closedFor, manualSince, chatVars, dirVars>>
    /\ UNCHANGED <<asked, render, deb>>

\* one second passes: no timer is due, every pending timer comes closer
CountDown(t) == IF t.st = "pending" THEN Pending(t.left - 1) ELSE t

Tick ==
    /\ ~InTask
    /\ \E s \in Socks : reconnectTimer[s].st = "pending" \/ hideTimer[s].st = "pending"
    /\ \A s \in Socks : reconnectTimer[s] # Pending(0) /\ hideTimer[s] # Pending(0)
    /\ reconnectTimer' = [s \in Socks |-> CountDown(reconnectTimer[s])]
    /\ hideTimer' = [s \in Socks |-> CountDown(hideTimer[s])]
    /\ closedFor' = [s \in Socks |->
                        IF sock[s] = "closed" /\ closedFor[s] < ReconnectDelay
                        THEN closedFor[s] + 1 ELSE closedFor[s]]
    /\ effects' = NoEffects
    /\ UNCHANGED <<sock, websocket, isConnected, status, manualSince, chatVars, dirVars>>
    /\ UNCHANGED <<asked, render, deb>>

\* ----------------------------------------------------------- server frames
\* WebSocket.send on the global socket: a null reference and a socket still
\* connecting throw, an open socket transmits, a closed one drops the data
SendResult ==
    CASE websocket = NoSock -> "throws"
      [] websocket # NoSock /\ sock[websocket] = "connecting" -> "throws"
      [] websocket # NoSock /\ sock[websocket] = "open" -> "sent"
      [] OTHER -> "dropped"

Sent(cmd) == [NoEffects EXCEPT !.sent = <<cmd>>]

\* a frame reaches handleWebSocketMessage of an open socket
Receives(s) == ~InTask /\ sock[s] = "open"

UserEntry(text) == [role |-> "user", content |-> text]
AssistantEntry(text) == [role |-> "assistant", content |-> text]

\* the streaming element once the container's innerHTML has been replaced
Detached(m) == IF m.open THEN [m EXCEPT !.pos = 0] ELSE m

\* case 'connection'
RecvConnection(s) ==
    /\ Receives(s)
    /\ effects' = NoEffects
    /\ UNCHANGED <<connVars, chatVars, dirVars>>
    /\ UNCHANGED <<asked, render, deb>>

\* case 'user_message': displayUserMessage reads currentUser.github_avatar_url,
\* a TypeError when the profile never loaded; the handler's catch logs it
RecvUserMessage(s, text) ==
    /\ Receives(s)
    /\ Len(messages) < MaxMsgs
    /\ messages' = IF currentUser = "null" THEN messages
                   ELSE Append(messages, UserEntry(text))
    /\ effects' = IF currentUser = "null" THEN Logged ELSE NoEffects
    /\ UNCHANGED <<connVars, currentUser, currentConversationId,
                   currentAssistantMessage, welcome, typingHidden,
                   arrived, streamSock, shownConv, asked, dirVars>>
    /\ UNCHANGED <<render, deb>>

\* case 'typing': toggleTypingIndicator(data.is_typing)
RecvTyping(s, isTyping) ==
    /\ Receives(s)
    /\ typingHidden' = ~isTyping
    /\ effects' = NoEffects
    /\ UNCHANGED <<connVars, currentUser, currentConversationId,
                   currentAssistantMessage, messages, welcome,
                   arrived, streamSock, shownConv, asked, dirVars>>
    /\ UNCHANGED <<render, deb>>

\* a variant that trims every chunk before appending it
AppendChunk_trimmed(raw, chunk) == raw \o Trim(chunk)

\* newText = (dataset.rawContent || '') + chunk
AppendChunk(raw, chunk) == raw \o chunk

\* case 'assistant_message_chunk': appendAssistantMessageChunk(data.content)
RecvChunk(s, chunk) ==
    /\ Receives(s)
    /\ Len(currentAssistantMessage.raw) + Len(chunk) <= MaxRaw
    /\ IF ~currentAssistantMessage.open
       THEN /\ Len(messages) < MaxMsgs
            /\ LET newText == AppendChunk(<<>>, chunk) IN
               /\ messages' = Append(messages, AssistantEntry(newText))
               /\ currentAssistantMessage' =
                      [open |-> TRUE, pos |-> Len(messages) + 1, raw |-> newText]
            /\ arrived' = <<chunk>>
            /\ streamSock' = s
            /\ UNCHANGED <<shownConv, asked>>
       ELSE /\ LET newText == AppendChunk(currentAssistantMessage.raw, chunk)
                   pos == currentAssistantMessage.pos IN
               /\ messages' = IF pos > 0
                              THEN [messages EXCEPT ![pos].content = newText]
                              ELSE messages
               /\ currentAssistantMessage' =
                      [currentAssistantMessage EXCEPT !.raw = newText]
            /\ arrived' = Append(arrived, chunk)
            /\ UNCHANGED <<streamSock, shownConv, asked>>
    /\ effects' = NoEffects
    /\ UNCHANGED <<connVars, currentUser, currentConversationId, welcome,
                   typingHidden, dirVars>>
    /\ UNCHANGED <<render, deb>>

\* a variant that hides the typing indicator and keeps the streaming element
RecvComplete_keepsSlot(s) ==
    /\ Receives(s)
    /\ typingHidden' = TRUE
    /\ effects' = NoEffects
    /\ UNCHANGED <<connVars, currentUser, currentConversationId,
                   currentAssistantMessage, messages, welcome, arrived,
                   streamSock, shownConv, asked, dirVars>>
    /\ UNCHANGED <<render, deb>>

\* case 'assistant_message_complete': completeAssistantMessage()
RecvComplete(s) ==
    /\ Receives(s)
    /\ currentAssistantMessage' = NoStream
    /\ typingHidden' = TRUE
    /\ arrived' = <<>>
    /\ streamSock' = NoSock
    /\ UNCHANGED <<shownConv, asked>>
    /\ effects' = IF currentAssistantMessage.open
                  THEN [NoEffects EXCEPT !.finalized =
                           [raw |-> currentAssistantMessage.raw, chunks |-> arrived]]
                  ELSE NoEffects
    /\ UNCHANGED <<connVars, currentUser, currentConversationId, messages,
                   welcome, dirVars>>
    /\ UNCHANGED <<render, deb>>

\* what displayConversationHistory leaves in the emptied container: every
\* entry, or, with no profile, the entries before the first user entry (its
\* displayUserMessage throws out of the forEach)
RECURSIVE Rendered(_, _)
Rendered(payload, user) ==
    IF payload = <<>> THEN <<>>
    ELSE IF Head(payload).role = "user"
         THEN IF user = "null" THEN <<>>
              ELSE <<UserEntry(Head(payload).content)>> \o Rendered(Tail(payload), user)
         ELSE <<AssistantEntry(Head(payload).content)>> \o Rendered(Tail(payload), user)

\* displayUserMessage threw out of displayConversationHistory
HistoryThrows(payload, user) ==
    user = "null" /\ \E i \in 1..Len(payload) : payload[i].role = "user"

\* case 'history': displayConversationHistory(data.messages)
RecvHistory(s, payload) ==
    /\ Receives(s)
    /\ messages' = Rendered(payload, currentUser)
    /\ welcome' = FALSE
    /\ currentAssistantMessage' = Detached(currentAssistantMessage)
    /\ effects' = IF HistoryThrows(payload, currentUser) THEN Logged ELSE NoEffects
    /\ IF asked.sock = s
       THEN shownConv' = asked.id /\ asked' = NoAsk
       ELSE UNCHANGED <<shownConv, asked>>
    /\ UNCHANGED <<connVars, currentUser, currentConversationId, typingHidden,
                   arrived, streamSock, dirVars>>
    /\ UNCHANGED <<render, deb>>

\* case 'new_conversation'
RecvNewConversation(s, id) ==
    /\ Receives(s)
    /\ currentConversationId' = id
    /\ shownConv' = IF shownConv = NoConv THEN id ELSE shownConv
    /\ effects' = NoEffects
    /\ UNCHANGED <<connVars, currentUser, currentAssistantMessage, messages,
                   welcome, typingHidden, arrived, streamSock, asked, dirVars>>
    /\ UNCHANGED <<render, deb>>

\* a variant that shows the toast and leaves the typing indicator as it is
RecvError_keepsTyping(s, text) ==
    /\ Receives(s)
    /\ effects' = Toast(text)
    /\ UNCHANGED <<connVars, chatVars, dirVars>>
    /\ UNCHANGED <<asked, render, deb>>

\* case 'error': showToast(data.message, 'error'); toggleTypingIndicator(false)
RecvError(s, text) ==
    /\ Receives(s)
    /\ typingHidden' = TRUE
    /\ effects' = Toast(text)
    /\ UNCHANGED <<connVars, currentUser, currentConversationId,
                   currentAssistantMessage, messages, welcome,
                   arrived, streamSock, shownConv, asked, dirVars>>
    /\ UNCHANGED <<render, deb>>

\* frames that decode to no event: text that is not JSON (JSON.parse throws),
\* the JSON value null (data.type throws), a JSON number and an unknown type
\* tag (no case of the switch), and a history frame with no messages array
\* (the container is emptied, then messages.forEach throws); the handler's
\* catch logs whatever was thrown
MalformedFrames ==
    {"invalid_json", "json_null", "json_number", "unknown_tag", "history_no_messages"}

RecvMalformed(s, frame) ==
    /\ Receives(s)
    /\ IF frame = "history_no_messages"
       THEN /\ messages' = <<>>
            /\ welcome' = FALSE
            /\ currentAssistantMessage' = Detached(currentAssistantMessage)
       ELSE UNCHANGED <<messages, welcome, currentAssistantMessage>>
    /\ effects' = IF frame \in {"json_number", "unknown_tag"} THEN NoEffects ELSE Logged
    /\ UNCHANGED <<connVars, currentUser, currentConversationId, typingHidden,
                   arrived, streamSock, shownConv, asked, dirVars>>
    /\ UNCHANGED <<render, deb>>

\* ------------------------------------------------------------ user actions
ChatMessage(text, conv) ==
    [type |-> "chat_message", message |-> text, conversation_id |-> conv]
LoadHistory(conv) ==
    [type |-> "load_history", message |-> <<>>, conversation_id |-> conv]
NewConversation ==
    [type |-> "new_conversation", message |-> <<>>, conversation_id |-> NoConv]

\* the effects of websocket.send(cmd) as the last statement of a handler with
\* no try around it
SendUncaught(cmd) ==
    CASE SendResult = "sent" -> Sent(cmd)
      [] SendResult = "throws" -> [NoEffects EXCEPT !.escaped = TRUE]
      [] OTHER -> NoEffects

\* a variant that sends the input as typed
Outgoing_untrimmed(value) == value

\* the text sendMessage puts on the wire
Outgoing(value) == Trim(value)

\* sendMessage() with `value` in #chatInput (send button, Enter key, example
\* query); the input element itself, emptied by a send, is not kept
sendMessage(value) ==
    /\ ~InTask
    /\ UNCHANGED <<messages, currentAssistantMessage, typingHidden, arrived,
                   streamSock, shownConv, asked, currentConversationId,
                   currentUser, connVars, dirVars>>
    /\ LET message == Outgoing(value) IN
       IF message = <<>> \/ ~isConnected
       THEN /\ effects' = NoEffects
            /\ UNCHANGED welcome
       ELSE /\ welcome' = FALSE
            /\ effects' = SendUncaught(ChatMessage(message, currentConversationId))
    /\ UNCHANGED <<render, deb>>

\* loadConversation(id): a click on an item of the sidebar list
loadConversation(id) ==
    /\ ~InTask
    /\ sidebar.st = "list" /\ id \in sidebar.items
    /\ currentConversationId' = id
    /\ effects' = CASE SendResult = "sent" -> Sent(LoadHistory(id))
                    [] SendResult = "throws" -> Toast("Failed to load conversation")
                    [] OTHER -> NoEffects
    /\ asked' = IF SendResult = "sent" THEN [sock |-> websocket, id |-> id] ELSE asked
    /\ UNCHANGED <<connVars, currentUser, currentAssistantMessage, messages,
                   welcome, typingHidden, arrived, streamSock, shownConv, dirVars>>
    /\ UNCHANGED <<render, deb>>

\* what startNewChat() assigns before it sends new_conversation
ResetChat ==
    /\ currentConversationId' = NoConv
    /\ currentAssistantMessage' = NoStream
    /\ messages' = <<>>
    /\ welcome' = TRUE
    /\ arrived' = <<>>
    /\ streamSock' = NoSock
    /\ shownConv' = NoConv

\* startNewChat(): the new-chat button
startNewChat ==
    /\ ~InTask
    /\ ResetChat
    /\ effects' = SendUncaught(NewConversation)
    /\ UNCHANGED <<connVars, currentUser, typingHidden, dirVars>>
    /\ UNCHANGED <<asked, render, deb>>

\* ------------------------------------------------------------- directory
\* displayConversations(conversations); a failed request shows the empty state
displayConversations(items) ==
    IF items = {} THEN [st |-> "empty", items |-> {}]
    ELSE [st |-> "list", items |-> items]

ListResults == [ok : {TRUE}, items : SUBSET ConvIds] \cup [ok : {FALSE}, items : {{}}]

loadConversationsDone(result) ==
    IF result.ok THEN displayConversations(result.items)
    ELSE [st |-> "empty", items |-> {}]

\* the loadConversations() of the page load returns
BootListReturns(result) ==
    /\ ~InTask
    /\ bootList
    /\ bootList' = FALSE
    /\ sidebar' = loadConversationsDone(result)
    /\ effects' = NoEffects
    /\ UNCHANGED <<connVars, chatVars, flows, deleted>>
    /\ UNCHANGED <<asked, render, deb>>

\* clearCurrentChat() up to its first await: with no current conversation it
\* is startNewChat(); otherwise confirm(), then the DELETE request is issued
clearCurrentChat(f, confirmed) ==
    /\ ~InTask
    /\ flows[f].pc = "idle"
    /\ IF currentConversationId = NoConv
       THEN /\ ResetChat
            /\ effects' = SendUncaught(NewConversation)
            /\ UNCHANGED flows
       ELSE /\ flows' = IF confirmed
                        THEN [flows EXCEPT ![f] = [pc |-> "awaitDelete",
                                                   id |-> currentConversationId]]
                        ELSE flows
            /\ effects' = NoEffects
            /\ UNCHANGED <<currentConversationId, currentAssistantMessage,
                           messages, welcome, arrived, streamSock,
                           shownConv>>
    /\ UNCHANGED <<connVars, currentUser, typingHidden, sidebar, bootList, deleted>>
    /\ UNCHANGED <<asked, render, deb>>

\* a variant that forgets the conversation although the request failed
DeleteFails_forgets(f) ==
    /\ ~InTask
    /\ flows[f].pc = "awaitDelete"
    /\ flows' = [flows EXCEPT ![f] = [pc |-> "idle", id |-> NoConv]]
    /\ currentConversationId' = NoConv
    /\ effects' = Toast("Failed to delete conversation")
    /\ UNCHANGED <<connVars, currentUser, currentAssistantMessage, messages,
                   welcome, typingHidden, arrived, streamSock, shownConv, asked,
                   sidebar, bootList, deleted>>
    /\ UNCHANGED <<render, deb>>

\* apiRequest(.../delete/, 'DELETE') throws: the catch of clearCurrentChat
DeleteFails(f) ==
    /\ ~InTask
    /\ flows[f].pc = "awaitDelete"
    /\ flows' = [flows EXCEPT ![f] = [pc |-> "idle", id |-> NoConv]]
    /\ effects' = Toast("Failed to delete conversation")
    /\ UNCHANGED <<connVars, chatVars, sidebar, bootList, deleted>>
    /\ UNCHANGED <<asked, render, deb>>

\* the directory answers a DELETE with success for a conversation it holds;
\* for one it has deleted already it answers with an error status
DirectoryDeletes(id) == id \notin deleted

\* a variant that resets the chat view before the list is refreshed
DeleteSucceeds_resetsFirst(f) ==
    /\ ~InTask
    /\ flows[f].pc = "awaitDelete"
    /\ DirectoryDeletes(flows[f].id)
    /\ deleted' = deleted \cup {flows[f].id}
    /\ flows' = [flows EXCEPT ![f].pc = "awaitList"]
    /\ ResetChat
    /\ sidebar' = [st |-> "updating", items |-> {}]
    /\ effects' = NoEffects
    /\ UNCHANGED <<connVars, currentUser, typingHidden, bootList>>
    /\ UNCHANGED <<asked, render, deb>>

\* the DELETE request succeeded: steps 2 to 4, up to await loadConversations()
DeleteSucceeds(f) ==
    /\ ~InTask
    /\ flows[f].pc = "awaitDelete"
    /\ DirectoryDeletes(flows[f].id)
    /\ deleted' = deleted \cup {flows[f].id}
    /\ flows' = [flows EXCEPT ![f].pc = "awaitList"]
    /\ currentConversationId' = NoConv
    /\ currentAssistantMessage' = NoStream
    /\ arrived' = <<>>
    /\ streamSock' = NoSock
    /\ UNCHANGED <<shownConv, asked>>
    /\ sidebar' = [st |-> "updating", items |-> {}]
    /\ effects' = NoEffects
    /\ UNCHANGED <<connVars, currentUser, messages, welcome, typingHidden,
                   bootList>>
    /\ UNCHANGED <<render, deb>>

\* the loadConversations() awaited by clearCurrentChat returns (it never
\* throws); the list was asked for after the delete, so it is without the
\* conversations the directory has deleted
DeleteListReturns(f, result) ==
    /\ ~InTask
    /\ flows[f].pc = "awaitList"
    /\ result.items \cap deleted = {}
    /\ flows' = [flows EXCEPT ![f].pc = "reset"]
    /\ sidebar' = loadConversationsDone(result)
    /\ effects' = NoEffects
    /\ UNCHANGED <<connVars, chatVars, bootList, deleted>>
    /\ UNCHANGED <<asked, render, deb>>

\* clearCurrentChat resumes in the same task: step 5, startNewChat(), then
\* the success toast; a throw of startNewChat's send lands in the catch
DeleteResets(f) ==
    /\ flows[f].pc = "reset"
    /\ flows' = [flows EXCEPT ![f] = [pc |-> "idle", id |-> NoConv]]
    /\ ResetChat
    /\ effects' = CASE SendResult = "sent" ->
                         [NoEffects EXCEPT
                            !.sent = <<NewConversation>>,
                            !.toasts = <<"Conversation deleted permanently">>]
                    [] SendResult = "throws" -> Toast("Failed to delete conversation")
                    [] OTHER -> Toast("Conversation deleted permanently")
    /\ UNCHANGED <<connVars, currentUser, typingHidden, sidebar, bootList, deleted>>
    /\ UNCHANGED <<asked, render, deb>>

\* ---------------------------------------------------------------- rendering
\* (src/frontend/js/markdown-renderer.js)  HTML is a sequence of characters;
\* the output of the markdown parser is a sequence of characters and of the
\* tags it emits, each tag split where wrapCodeBlocks' pattern looks into it.
UserChars == {"<", "&", "l", "t", ";", "\n", "*"}
TextsOver(chars, n) == UNION { [1..k -> chars] : k \in 0..n }
UserContents == TextsOver(UserChars, MaxText)

\* info strings of a fence: none, js, c++
Langs == { <<>>, <<"j", "s">>, <<"c", "+", "+">> }

\* a fenced block: the fence (~~~, as three backquotes) with its info string,
\* a line of code, the closing fence
FenceText(lang) == <<"~~~">> \o lang \o <<"\n", "x", "\n", "~~~">>

Segments == { <<"a">>, <<"<">> } \cup { FenceText(lang) : lang \in Langs }

RECURSIVE SegsUpTo(_)
SegsUpTo(n) ==
    IF n = 0 THEN { <<>> }
    ELSE SegsUpTo(n - 1) \cup { t \o seg : t \in SegsUpTo(n - 1), seg \in Segments }

MdContents == SegsUpTo(MaxSegs)

\* marked.parse returns, throws, or `marked` is not defined (a ReferenceError)
Parsers == {"ok", "throws", "undefined"}

\* the first index of c in t at or after i; 0 when there is none
RECURSIVE IndexOf(_, _, _)
IndexOf(t, c, i) ==
    IF i > Len(t) THEN 0 ELSE IF t[i] = c THEN i ELSE IndexOf(t, c, i + 1)

IsPrefix(p, t) == Len(p) <= Len(t) /\ SubSeq(t, 1, Len(p)) = p

\* the serialization of one character of a text node (div.innerHTML)
EscapeOne(c) ==
    CASE c = "&" -> <<"&", "a", "m", "p", ";">>
      [] c = "<" -> <<"&", "l", "t", ";">>
      [] c = ">" -> <<"&", "g", "t", ";">>
      [] OTHER   -> <<c>>

\* a variant that leaves the ampersand as it is
RECURSIVE escapeHtml_keepsAmp(_)
escapeHtml_keepsAmp(text) ==
    IF text = <<>> THEN <<>>
    ELSE (IF Head(text) = "&" THEN <<"&">> ELSE EscapeOne(Head(text)))
         \o escapeHtml_keepsAmp(Tail(text))

\* escapeHtml(text): div.textContent = text; return div.innerHTML
RECURSIVE escapeHtml(_)
escapeHtml(text) ==
    IF text = <<>> THEN <<>> ELSE EscapeOne(Head(text)) \o escapeHtml(Tail(text))

\* .replace(/\n/g, '<br>')
RECURSIVE ReplaceNewlines(_)
ReplaceNewlines(html) ==
    IF html = <<>> THEN <<>>
    ELSE (IF Head(html) = "\n" THEN <<"<", "b", "r", ">">> ELSE <<Head(html)>>)
         \o ReplaceNewlines(Tail(html))

\* what marked emits for a fenced block: the class only with an info string
PreCode(lang, code) ==
    <<"<pre><code">>
    \o (IF lang = <<>> THEN <<>> ELSE <<" class=\"language-">> \o lang \o <<"\"">>)
    \o <<">">> \o escapeHtml(code) \o <<"</code></pre>">>

\* marked.parse(markdown): fenced blocks, and paragraphs of the text between
RECURSIVE MarkedParse(_)
MarkedParse(md) ==
    IF md = <<>> THEN <<>>
    ELSE IF Head(md) = "~~~"
         THEN LET nl == IndexOf(md, "\n", 2)
                  close == IF nl = 0 THEN 0 ELSE IndexOf(md, "~~~", nl + 1)
              IN  IF close = 0
                  THEN PreCode(<<>>, Tail(md))
                  ELSE PreCode(SubSeq(md, 2, nl - 1), SubSeq(md, nl + 1, close - 2))
                       \o MarkedParse(SubSeq(md, close + 1, Len(md)))
         ELSE LET fence == IndexOf(md, "~~~", 1)
                  last == IF fence = 0 THEN Len(md) ELSE fence - 1
              IN  <<"<p>">> \o escapeHtml(SubSeq(md, 1, last)) \o <<"</p>">>
                  \o MarkedParse(SubSeq(md, last + 1, Len(md)))

\* \w of the pattern, over the characters of the model
WordChars == {"a", "c", "j", "s", "x", "_"}

\* the last index of the run of word characters that starts at i (i - 1: none)
RECURSIVE WordRun(_, _)
WordRun(html, i) ==
    IF i <= Len(html) /\ html[i] \in WordChars THEN WordRun(html, i + 1) ELSE i - 1

\* the match of /<pre><code class="language-(\w+)">([\s\S]*?)<\/code><\/pre>/
\* at the head of html
CodeBlockMatch(html) ==
    IF Len(html) >= 2 /\ html[1] = "<pre><code" /\ html[2] = " class=\"language-"
    THEN LET e == WordRun(html, 3)
             close == IndexOf(html, "</code></pre>", e + 3)
         IN  IF e >= 3 /\ e + 2 <= Len(html) /\ html[e + 1] = "\"" /\ html[e + 2] = ">"
                /\ close # 0
             THEN [ok |-> TRUE, language |-> SubSeq(html, 3, e),
                   code |-> SubSeq(html, e + 3, close - 1), end |-> close]
             ELSE [ok |-> FALSE, language |-> <<>>, code |-> <<>>, end |-> 0]
    ELSE [ok |-> FALSE, language |-> <<>>, code |-> <<>>, end |-> 0]

\* the replacement of wrapCodeBlocks
CodeBlockWrapper(language, code) ==
    <<"<div class=\"code-block-wrapper\">", "<div class=\"code-block-header\">",
      "<span class=\"code-language\">">> \o language \o
    <<"</span>", "<button class=\"btn-copy-code\" onclick=\"copyCode(this)\">",
      "Copy", "</button>", "</div>", "<pre><code", " class=\"language-">> \o language \o
    <<"\"", ">">> \o code \o <<"</code></pre>", "</div>">>

\* wrapCodeBlocks(html): html.replace(codeBlockRegex, ...)
RECURSIVE wrapCodeBlocks(_)
wrapCodeBlocks(html) ==
    IF html = <<>> THEN <<>>
    ELSE LET m == CodeBlockMatch(html) IN
         IF m.ok
         THEN CodeBlockWrapper(m.language, m.code)
              \o wrapCodeBlocks(SubSeq(html, m.end + 1, Len(html)))
         ELSE <<Head(html)>> \o wrapCodeBlocks(Tail(html))

\* a variant with no try around the parser
renderMarkdown_noCatch(markdown, parser) ==
    IF markdown = <<>> THEN [html |-> <<>>, threw |-> FALSE]
    ELSE IF parser = "ok"
         THEN [html |-> wrapCodeBlocks(MarkedParse(markdown)), threw |-> FALSE]
         ELSE [html |-> <<>>, threw |-> TRUE]

\* renderMarkdown(markdown); `threw`: an exception left the function
renderMarkdown(markdown, parser) ==
    IF markdown = <<>> THEN [html |-> <<>>, threw |-> FALSE]
    ELSE IF parser = "ok"
         THEN [html |-> wrapCodeBlocks(MarkedParse(markdown)), threw |-> FALSE]
         ELSE [html |-> escapeHtml(markdown), threw |-> FALSE]

\* processMessageContent(content, isUser)
processMessageContent(content, isUser, parser) ==
    IF isUser
    THEN [html |-> ReplaceNewlines(escapeHtml(content)), threw |-> FALSE]
    ELSE renderMarkdown(content, parser)

\* a message is rendered: a user's text, or an assistant's markdown
RenderMessage(content, isUser, parser) ==
    /\ LET r == processMessageContent(content, isUser, parser) IN
       render' = [isUser |-> isUser, content |-> content, parser |-> parser,
                  html |-> r.html, threw |-> r.threw]
    /\ UNCHANGED <<connVars, chatVars, dirVars, asked, effects, deb>>

\* the element's innerHTML is set: the nodes the browser builds from the
\* characters.  "<" before a letter opens a tag that runs to ">"; the
\* references &lt; &gt; &amp; (the semicolon optional) stand for a character
Letters == {"a", "b", "g", "l", "m", "p", "r", "t"}
TextNode(c) == [tag |-> <<>>, text |-> c]
Element(name) == [tag |-> name, text |-> ""]
CharRefs ==
    { [name |-> <<"&", "l", "t", ";">>, text |-> "<"],
      [name |-> <<"&", "g", "t", ";">>, text |-> ">"],
      [name |-> <<"&", "a", "m", "p", ";">>, text |-> "&"],
      [name |-> <<"&", "l", "t">>, text |-> "<"],
      [name |-> <<"&", "g", "t">>, text |-> ">"],
      [name |-> <<"&", "a", "m", "p">>, text |-> "&"] }

RECURSIVE ParseHtml(_)
ParseHtml(html) ==
    IF html = <<>> THEN <<>>
    ELSE IF Head(html) = "<" /\ Len(html) >= 2 /\ html[2] \in Letters
         THEN LET close == IndexOf(html, ">", 2) IN
              IF close = 0 THEN <<>>
              ELSE <<Element(SubSeq(html, 2, close - 1))>>
                   \o ParseHtml(SubSeq(html, close + 1, Len(html)))
         ELSE LET refs == { r \in CharRefs : IsPrefix(r.name, html) } IN
              IF refs # {}
              THEN LET r == CHOOSE x \in refs : \A y \in refs : Len(y.name) <= Len(x.name)
                   IN  <<TextNode(r.text)>>
                       \o ParseHtml(SubSeq(html, Len(r.name) + 1, Len(html)))
              ELSE <<TextNode(Head(html))>> \o ParseHtml(Tail(html))

\* ----------------------------------------------------------------- debounce
\* the arguments the wrapper is called with, and the waits it is built with
ArgValues == {1, 2}
Waits == 1..MaxWait

\* deb.wait = 0: debounce has not been called.  timeout is the timer the
\* closure variable `timeout` names and args the arguments its callback
\* `later` was created with; out is what func was called with in the last
\* step.  last, since, owed, calls and runs are history: the arguments of the
\* most recent call of the wrapper, the ticks since it (up to MaxWait + 1),
\* whether func has not run since it, and the numbers of calls and of runs.
NoDebounce == [wait |-> 0, timeout |-> NoTimer, args |-> 0, out |-> <<>>,
               last |-> 0, since |-> 0, owed |-> FALSE, calls |-> 0, runs |-> 0]

\* debounce(func, wait): the wrapper is created, `timeout` undefined
debounce(wait) ==
    /\ deb.wait = 0
    /\ deb' = [NoDebounce EXCEPT !.wait = wait]
    /\ UNCHANGED <<connVars, chatVars, dirVars, asked, effects, render>>

\* a variant that leaves a timer that is already running as it is
executedFunction_noRestart(args) ==
    /\ deb.wait # 0
    /\ deb.calls < MaxCalls
    /\ deb' = [deb EXCEPT
                 !.timeout = IF deb.timeout.st = "pending" THEN deb.timeout
                             ELSE Pending(deb.wait),
                 !.args = IF deb.timeout.st = "pending" THEN deb.args ELSE args,
                 !.out = <<>>,
                 !.last = args, !.since = 0, !.owed = TRUE,
                 !.calls = deb.calls + 1]
    /\ UNCHANGED <<connVars, chatVars, dirVars, asked, effects, render>>

\* executedFunction(...args): clearTimeout(timeout), then
\* timeout = setTimeout(later, wait) with a `later` that holds these args
executedFunction(args) ==
    /\ deb.wait # 0
    /\ deb.calls < MaxCalls
    /\ deb' = [deb EXCEPT
                 !.timeout = Pending(deb.wait),
                 !.args = args,
                 !.out = <<>>,
                 !.last = args, !.since = 0, !.owed = TRUE,
                 !.calls = deb.calls + 1]
    /\ UNCHANGED <<connVars, chatVars, dirVars, asked, effects, render>>

\* the timer fires: later() clears the timer and calls func(...args)
later ==
    /\ deb.timeout = Pending(0)
    /\ deb' = [deb EXCEPT
                 !.timeout = FiredTimer,
                 !.out = <<deb.args>>,
                 !.owed = FALSE,
                 !.runs = deb.runs + 1]
    /\ UNCHANGED <<connVars, chatVars, dirVars, asked, effects, render>>

\* one tick passes for the wrapper: no timer of it is due
DebounceTick ==
    /\ deb.wait # 0
    /\ deb.timeout # Pending(0)
    /\ deb' = [deb EXCEPT
                 !.timeout = CountDown(deb.timeout),
                 !.out = <<>>,
                 !.since = IF deb.since <= MaxWait THEN deb.since + 1 ELSE deb.since]
    /\ UNCHANGED <<connVars, chatVars, dirVars, asked, effects, render>>

\* ------------------------------------------------------------------- Init
\* the page after DOMContentLoaded ran up to connectWebSocket(): the profile
\* is loaded or its request failed, the first socket is being opened or its
\* construction threw, and loadConversations() awaits the directory
Init ==
    /\ currentUser \in {"null", "user"}
    /\ \E ctorOk \in BOOLEAN :
         /\ sock = [s \in Socks |-> IF s = 1 /\ ctorOk THEN "connecting" ELSE "unused"]
         /\ websocket = IF ctorOk THEN 1 ELSE NoSock
         /\ status = showConnectionStatus(IF ctorOk THEN "Connecting..." ELSE "Connection failed")
         /\ effects = IF ctorOk THEN NoEffects ELSE Toast("Failed to connect to chat service")
    /\ isConnected = FALSE
    /\ reconnectTimer = [s \in Socks |-> NoTimer]
    /\ hideTimer = [s \in Socks |-> NoTimer]
    /\ closedFor = [s \in Socks |-> 0]
    /\ manualSince = {}
    /\ currentConversationId = NoConv
    /\ currentAssistantMessage = NoStream
    /\ messages = <<>>
    /\ welcome = TRUE
    /\ typingHidden = TRUE
    /\ sidebar = [st |-> "initial", items |-> {}]
    /\ bootList = TRUE
    /\ deleted = {}
    /\ flows = [f \in Flows |-> [pc |-> "idle", id |-> NoConv]]
    /\ arrived = <<>>
    /\ streamSock = NoSock
    /\ shownConv = NoConv
    /\ asked = NoAsk
    /\ render = NoRender
    /\ deb = NoDebounce

\* ---------------------------------------------------------- specifications
NextConn ==
    \/ \E s \in Socks : handleWebSocketOpen(s)
    \/ \E s \in Socks : handleWebSocketError(s)
    \/ \E s \in Socks : handleWebSocketClose(s)
    \/ \E s \in Socks : ReconnectTimerFire(s)
    \/ \E s \in Socks : HideTimerFire(s)
    \/ Tick

\* the connection manager alone: socket events, timers and time
SpecConn == Init /\ [][NextConn]_vars

\* the connection manager with a caller that opens sockets itself
SpecManual == Init /\ [][NextConn \/ ExplicitConnect]_vars

\* the socket events of the chat specifications (no timer fires in them)
SocketEvents ==
    \/ \E s \in Socks : handleWebSocketOpen(s)
    \/ \E s \in Socks : handleWebSocketError(s)
    \/ \E s \in Socks : handleWebSocketClose(s)

NextChat ==
    \/ \E s \in Socks : handleWebSocketOpen(s)
    \/ \E s \in Socks : handleWebSocketClose(s)
    \/ \E s \in Socks : RecvConnection(s)
    \/ \E s \in Socks, text \in UserTexts : RecvUserMessage(s, text)
    \/ \E s \in Socks, b \in BOOLEAN : RecvTyping(s, b)
    \/ \E s \in Socks, chunk \in ChunkTexts : RecvChunk(s, chunk)
    \/ \E s \in Socks : RecvComplete(s)
    \/ \E s \in Socks, payload \in HistoryPayloads : RecvHistory(s, payload)
    \/ \E s \in Socks : RecvNewConversation(s, 1)
    \/ \E s \in Socks, text \in ErrorTexts : RecvError(s, text)
    \/ \E s \in Socks, frame \in MalformedFrames : RecvMalformed(s, frame)
    \/ \E value \in InputValues : sendMessage(value)
    \/ startNewChat

\* the chat session: server frames, sends and new chats over the first
\* socket's life, from its open to its close, with conversation 1 as the one
\* the server creates (the error event and the timers are the subject of
\* SpecConn, the sidebar and the delete flow of SpecDelete)
Spec == Init /\ [][NextChat]_vars

NextDelete ==
    \/ SocketEvents
    \/ \E s \in Socks : RecvChunk(s, <<"a">>)
    \/ \E id \in ConvIds : loadConversation(id)
    \/ \E result \in ListResults : BootListReturns(result)
    \/ \E f \in Flows, confirmed \in BOOLEAN : clearCurrentChat(f, confirmed)
    \/ \E f \in Flows : DeleteFails(f)
    \/ \E f \in Flows : DeleteSucceeds(f)
    \/ \E f \in Flows, result \in ListResults : DeleteListReturns(f, result)
    \/ \E f \in Flows : DeleteResets(f)

\* the delete-current-conversation flow, among the events that set what it
\* clears: streamed chunks, conversation switches (conversations loaded
\* from the sidebar) and the sidebar list
SpecDelete == Init /\ [][NextDelete]_vars

NextSwitch ==
    \/ SocketEvents
    \/ \E result \in ListResults : BootListReturns(result)
    \/ \E id \in ConvIds : loadConversation(id)
    \/ startNewChat
    \/ \E s \in Socks :
          /\ asked.sock = s
          /\ \E payload \in HistoryPayloads : RecvHistory(s, payload)
    \/ \E value \in InputValues : sendMessage(value)

\* switching between conversations: loads from the sidebar, new chats, the
\* history frames by which the server answers the loads, and messages sent
SpecSwitch == Init /\ [][NextSwitch]_vars

NextDebounce ==
    \/ \E wait \in Waits : debounce(wait)
    \/ \E args \in ArgValues : executedFunction(args)
    \/ later
    \/ DebounceTick

\* a debounced function, its calls and its timer
SpecDebounce == Init /\ [][NextDebounce]_vars

NextStream ==
    \/ \E s \in Socks : handleWebSocketOpen(s)
    \/ \E s \in Socks : handleWebSocketClose(s)
    \/ \E s \in Socks, chunk \in ChunkTexts : RecvChunk(s, chunk)
    \/ \E s \in Socks : RecvComplete(s)
    \/ \E s \in Socks, b \in BOOLEAN : RecvTyping(s, b)
    \/ \E s \in Socks, text \in ErrorTexts : RecvError(s, text)
    \/ \E s \in Socks, text \in UserTexts : RecvUserMessage(s, text)

\* the frames of an assistant turn on the first socket: echo, typing,
\* chunks, complete, error
SpecStream == Init /\ [][NextStream]_vars

NextSession ==
    \/ NextConn
    \/ \E s \in Socks : RecvChunk(s, <<"a">>)
    \/ \E s \in Socks : RecvComplete(s)
    \/ \E s \in Socks : RecvNewConversation(s, 1)

\* a chat session across reconnects: the connection manager with its timers,
\* and the frames that open a conversation and stream a reply into it
SpecSession == Init /\ [][NextSession]_vars

\* displayUserMessage renders the text of a user's message
RenderUser ==
    /\ render = NoRender
    /\ \E content \in UserContents : RenderMessage(content, TRUE, "ok")

\* appendAssistantMessageChunk and displayConversationHistory render an
\* assistant's markdown
RenderAssistant ==
    /\ render = NoRender
    /\ \E content \in MdContents, parser \in Parsers :
          RenderMessage(content, FALSE, parser)

NextRender == RenderUser \/ RenderAssistant

\* the renderer alone: one message is rendered, a user's or an assistant's
SpecRender == Init /\ [][NextRender]_vars

\* ------------------------------------------------------------------ claims
AsEntries(payload) ==
    [i \in 1..Len(payload) |->
        IF payload[i].role = "user" THEN UserEntry(payload[i].content)
        ELSE AssistantEntry(payload[i].content)]

\* C1: the raw content of a streaming message is at every moment the chunks
\* received for it, concatenated in arrival order with nothing inserted,
\* dropped, trimmed or reordered; it is what is displayed while the element is
\* in the container, and it is what assistant-complete finalizes.
C1_ChunksConcatenated ==
    /\ currentAssistantMessage.open =>
          /\ currentAssistantMessage.raw = Flatten(arrived)
          /\ currentAssistantMessage.pos > 0 =>
                messages[currentAssistantMessage.pos] =
                    AssistantEntry(Flatten(arrived))
    /\ effects.finalized.chunks # <<>> =>
          effects.finalized.raw = Flatten(effects.finalized.chunks)

\* a complete has just finalized the message of the chunks "a", " b"
C1_Witness ==
    /\ effects.finalized = [raw |-> <<"a", " ", "b">>,
                            chunks |-> << <<"a">>, <<" ", "b">> >>]
    /\ ~currentAssistantMessage.open

\* C2: a history event replaces the displayed list: right after it the list
\* is exactly the payload's messages in payload order.
C2_HistoryReplaces ==
    [][\A s \in Socks, payload \in HistoryPayloads :
          RecvHistory(s, payload) => messages' = AsEntries(payload)]_vars

Constructed == { s \in Socks : sock[s] # "unused" }
FiredReconnects == { s \in Socks : reconnectTimer[s].st = "fired" }

\* C3: a failure of the socket (close, or error then close) leaves the client
\* disconnected and sets exactly one reconnect timer, at the close event and
\* not at the error event; the timer runs the fixed delay, fires once, and
\* its firing makes one connection attempt (a socket, or a constructor
\* failure reported as "Connection failed"): never none, never two.
C3_OneReconnectPerFailure ==
    /\ \A s \in Socks :
          /\ (s = websocket /\ sock[s] \in {"errored", "closed"}) => ~isConnected
          /\ (sock[s] = "closed") <=> (reconnectTimer[s].st # "none")
          /\ reconnectTimer[s].st = "pending" =>
                closedFor[s] + reconnectTimer[s].left = ReconnectDelay
          /\ reconnectTimer[s].st = "fired" =>
                /\ closedFor[s] = ReconnectDelay
                /\ s < MaxSockets
                /\ sock[s + 1] # "unused" \/ status.text = "Connection failed"
    /\ Cardinality(Constructed) <= 1 + Cardinality(FiredReconnects)

\* the first socket failed, three seconds passed, its timer fired and opened
\* the second socket
C3_Witness ==
    /\ sock[1] = "closed"
    /\ reconnectTimer[1] = FiredTimer
    /\ closedFor[1] = ReconnectDelay
    /\ websocket = 2 /\ sock[2] = "connecting"
    /\ Cardinality(Constructed) = 2

\* C4: a reconnect timer that was pending when a socket was opened explicitly
\* creates no socket when it fires.
C4_ExplicitConnectCancelsRetry ==
    [][\A s \in Socks :
          (s \in manualSince /\ ReconnectTimerFire(s)) => sock' = sock]_vars

FlowKeeps ==
    /\ currentConversationId' = currentConversationId
    /\ currentAssistantMessage' = currentAssistantMessage
    /\ messages' = messages
    /\ welcome' = welcome
    /\ sidebar' = sidebar

\* C5: a delete flow whose request fails has changed nothing: neither its
\* start (confirm, request issued) nor the failure changes
\* currentConversationId, the streaming message, the displayed messages or
\* the sidebar list, and the failure shows the error notice.
C5_FailedDeleteKeepsState ==
    [][\A f \in Flows :
          /\ (flows[f].pc = "idle" /\ flows'[f].pc = "awaitDelete") => FlowKeeps
          /\ (flows[f].pc = "awaitDelete" /\ flows'[f].pc = "idle") =>
                /\ FlowKeeps
                /\ effects'.toasts = <<"Failed to delete conversation">>]_vars

\* a delete of conversation 1 has just failed while a reply was streaming
C5_Witness ==
    /\ effects.toasts = <<"Failed to delete conversation">>
    /\ \A f \in Flows : flows[f].pc = "idle"
    /\ currentConversationId = 1
    /\ currentAssistantMessage.open
    /\ messages # <<>>
    /\ sidebar.st = "list"

\* C6: the delete flow changes nothing before its request has succeeded;
\* on success it clears currentConversationId and the streaming message (the
\* view still as it was, the sidebar marked as updating), then the sidebar
\* list is refreshed from the directory's answer (the view still as it was),
\* and only then the chat is reset to the welcome view with no conversation.
C6_DeleteOrder ==
    [][\A f \in Flows :
          /\ (flows[f].pc = "idle" /\ flows'[f].pc = "awaitDelete") => FlowKeeps
          /\ (flows[f].pc = "awaitDelete" /\ flows'[f].pc = "awaitList") =>
                /\ currentConversationId' = NoConv
                /\ currentAssistantMessage' = NoStream
                /\ sidebar'.st = "updating"
                /\ messages' = messages /\ welcome' = welcome
          /\ (flows[f].pc = "awaitList" /\ flows'[f].pc = "reset") =>
                /\ sidebar'.st \in {"list", "empty"}
                /\ messages' = messages /\ welcome' = welcome
                /\ currentConversationId' = currentConversationId
          /\ (flows[f].pc = "reset" /\ flows'[f].pc = "idle") =>
                /\ currentConversationId' = NoConv
                /\ currentAssistantMessage' = NoStream
                /\ messages' = <<>> /\ welcome'
                /\ sidebar' = sidebar
          /\ flows'[f].pc # flows[f].pc =>
                <<flows[f].pc, flows'[f].pc>> \in
                    { <<"idle", "awaitDelete">>, <<"awaitDelete", "idle">>,
                      <<"awaitDelete", "awaitList">>, <<"awaitList", "reset">>,
                      <<"reset", "idle">> }]_vars

\* a delete has run to its end: list refreshed, welcome view, no conversation
C6_Witness ==
    /\ effects.toasts = <<"Conversation deleted permanently">>
    /\ effects.sent = <<NewConversation>>
    /\ currentConversationId = NoConv
    /\ ~currentAssistantMessage.open
    /\ messages = <<>> /\ welcome
    /\ sidebar.st = "list"

\* C7: an error frame, whatever the state, shows its message and leaves the
\* typing indicator off; it changes neither currentConversationId nor the
\* displayed messages (what was streamed so far stays visible).
C7_ErrorFrameEffect ==
    [][\A s \in Socks, text \in ErrorTexts :
          RecvError(s, text) =>
             /\ effects'.toasts = <<text>>
             /\ typingHidden'
             /\ currentConversationId' = currentConversationId
             /\ messages' = messages
             /\ welcome' = welcome]_vars

\* an error frame has just been handled in a conversation with a partly
\* streamed reply on display
C7_Witness ==
    /\ effects.toasts = <<"rate limited">>
    /\ typingHidden
    /\ currentConversationId = 1
    /\ currentAssistantMessage.open /\ currentAssistantMessage.pos = 1
    /\ messages = <<AssistantEntry(<<"a">>)>>

\* C8: an error frame aborts the streaming turn: right after it no streaming
\* assistant message is open.
C8_ErrorClosesStream ==
    effects.toasts = <<"rate limited">> => ~currentAssistantMessage.open

\* C9: a frame that decodes to no event is discarded: currentConversationId,
\* the streaming message, the displayed messages, the typing indicator and
\* the connection are as before, and nothing is thrown out of the handler.
C9_MalformedFrameIgnored ==
    [][\A s \in Socks, frame \in MalformedFrames :
          RecvMalformed(s, frame) =>
             /\ currentConversationId' = currentConversationId
             /\ currentAssistantMessage'.open = currentAssistantMessage.open
             /\ currentAssistantMessage'.raw = currentAssistantMessage.raw
             /\ messages' = messages
             /\ typingHidden' = typingHidden
             /\ isConnected' = isConnected /\ sock' = sock
             /\ ~effects'.escaped]_vars

UserCount(ms) == Cardinality({ i \in 1..Len(ms) : ms[i].role = "user" })

\* C10: a send puts a chat_message on the wire only when the trimmed input
\* is not empty and the connection is open, and then exactly one, carrying
\* the trimmed text and the current conversation id; the send adds nothing
\* to the displayed messages: user messages come to the list only with a
\* frame of the server (a user_message echo, or a history snapshot).
C10_SendContract ==
    [][/\ \A value \in InputValues :
             sendMessage(value) =>
                /\ messages' = messages
                /\ effects'.sent # <<>> =>
                      /\ Trim(value) # <<>>
                      /\ isConnected
                      /\ websocket # NoSock /\ sock[websocket] = "open"
                      /\ effects'.sent =
                            <<ChatMessage(Trim(value), currentConversationId)>>
                /\ (Trim(value) # <<>> /\ isConnected /\ websocket # NoSock
                      /\ sock[websocket] = "open") => effects'.sent # <<>>
       /\ (messages' # messages /\ UserCount(messages') > UserCount(messages)) =>
             \/ \E s \in Socks, text \in UserTexts : RecvUserMessage(s, text)
             \/ \E s \in Socks, payload \in HistoryPayloads : RecvHistory(s, payload)]_vars

\* " a " has just been sent as "a" for conversation 1, and no user message is
\* displayed
C10_Witness ==
    /\ effects.sent = <<ChatMessage(<<"a">>, 1)>>
    /\ UserCount(messages) = 0
    /\ ~welcome

\* C11: a step taken while the global socket is not open (no socket, or one
\* that is connecting, failing or closed) writes nothing to a socket and lets
\* no exception out of its handler.
C11_SendWhileNotOpenIsNoop ==
    [][(websocket = NoSock \/ sock[websocket] # "open") =>
          (effects'.sent = <<>> /\ ~effects'.escaped)]_vars

ChatKept ==
    /\ currentConversationId' = currentConversationId
    /\ currentAssistantMessage' = currentAssistantMessage
    /\ messages' = messages
    /\ welcome' = welcome

\* C12: the error and close events of a socket leave currentConversationId,
\* the streaming message and the displayed messages as they were, and so do
\* the reconnect timer and the open event of the next socket; none of these
\* steps sends a command.
C12_DisconnectKeepsChat ==
    [][\A s \in Socks :
          (\/ handleWebSocketError(s)
           \/ handleWebSocketClose(s)
           \/ ReconnectTimerFire(s)
           \/ handleWebSocketOpen(s)) => (ChatKept /\ effects'.sent = <<>>)]_vars

\* the first socket dropped while a reply was streaming in conversation 1;
\* the second socket has just opened and the chat is as it was
C12_Witness ==
    /\ sock[1] = "closed" /\ websocket = 2 /\ sock[2] = "open" /\ isConnected
    /\ status = showConnectionStatus("Connected")
    /\ hideTimer[2] = Pending(HideDelay)
    /\ currentConversationId = 1
    /\ currentAssistantMessage = [open |-> TRUE, pos |-> 1, raw |-> <<"a">>]
    /\ messages = <<AssistantEntry(<<"a">>)>>
    /\ effects = NoEffects

\* C13: whenever the client is disconnected a connection attempt is under
\* way or pending: a socket is connecting or about to deliver its close
\* event, or a reconnect timer is running.
C13_AlwaysRetrying ==
    ~isConnected =>
        \E s \in Socks : \/ sock[s] \in {"connecting", "errored"}
                         \/ reconnectTimer[s].st = "pending"

\* C14: a chunk that arrives right after a switch command went out
\* (new_conversation of a new chat, load_history of a load), so before any
\* other frame and before the server's reply to the switch, adds nothing to
\* the displayed messages.
C14_SwitchIgnoresLateChunks ==
    [][\A s \in Socks, chunk \in ChunkTexts :
          (/\ \/ effects.sent = <<NewConversation>>
              \/ \E id \in ConvIds : effects.sent = <<LoadHistory(id)>>
           /\ RecvChunk(s, chunk)) => messages' = messages]_vars

\* the text a reader sees in the nodes: the text nodes, a line break read as
\* a newline
RECURSIVE ShownText(_)
ShownText(nodes) ==
    IF nodes = <<>> THEN <<>>
    ELSE (IF Head(nodes).tag = <<>> THEN <<Head(nodes).text>>
          ELSE IF Head(nodes).tag = <<"b", "r">> THEN <<"\n">> ELSE <<>>)
         \o ShownText(Tail(nodes))

Newlines(t) == Cardinality({ i \in 1..Len(t) : t[i] = "\n" })

\* C15: the HTML made for a user's message builds no element but the line
\* breaks, one for each newline of the text, and the text it shows (a line
\* break read as a newline) is the original text, character for character:
\* nothing of the content is read as markup or as a character reference.
C15_UserTextLiteral ==
    render.isUser =>
        LET nodes == ParseHtml(render.html) IN
        /\ \A i \in 1..Len(nodes) : nodes[i].tag \in { <<>>, <<"b", "r">> }
        /\ Cardinality({ i \in 1..Len(nodes) : nodes[i].tag = <<"b", "r">> })
              = Newlines(render.content)
        /\ ShownText(nodes) = render.content
        /\ ~render.threw

\* the user's text "<&\n*" has been rendered
C15_Witness ==
    /\ render.isUser
    /\ render.content = <<"<", "&", "\n", "*">>
    /\ render.html = <<"&", "l", "t", ";", "&", "a", "m", "p", ";",
                       "<", "b", "r", ">", "*">>

\* C16: rendering an assistant's content lets no exception out; when the
\* markdown parser throws or is not loaded, the HTML returned is the content
\* escaped: it builds no element and shows the content character for
\* character.
C16_RenderNeverThrows ==
    ~render.isUser =>
        /\ ~render.threw
        /\ render.parser # "ok" =>
              LET nodes == ParseHtml(render.html) IN
              /\ \A i \in 1..Len(nodes) : nodes[i].tag = <<>>
              /\ ShownText(nodes) = render.content

\* the parser threw on "<" followed by a fenced block, and the text came back
\* escaped
C16_Witness ==
    /\ ~render.isUser /\ render.parser = "throws" /\ ~render.threw
    /\ render.content = <<"<">> \o FenceText(<<"j", "s">>)
    /\ render.html = <<"&", "l", "t", ";">> \o FenceText(<<"j", "s">>)

WrapperOpen == "<div class=\"code-block-wrapper\">"

\* the code block that starts at html[i] stands in a wrapper: the nearest
\* wrapper opened before it has no other code block in between, and shows a
\* language tag and a copy button before the block
InWrapper(html, i) ==
    \E w \in 1..(i - 1) :
        /\ html[w] = WrapperOpen
        /\ \A k \in (w + 1)..(i - 1) : html[k] # "<pre><code"
        /\ \E k \in (w + 1)..(i - 1) : html[k] = "<span class=\"code-language\">"
        /\ \E k \in (w + 1)..(i - 1) : html[k] = "Copy"

\* C17: in the HTML rendered from an assistant's markdown, every code block
\* stands in a code-block wrapper with a language tag and a copy button.
C17_EveryFenceWrapped ==
    (~render.isUser /\ render.parser = "ok") =>
        \A i \in 1..Len(render.html) :
            render.html[i] = "<pre><code" => InWrapper(render.html, i)

\* C20: a chunk received on a socket other than the one the open streaming
\* message was started on does not continue that message: it starts a
\* message of its own.
C20_NoStreamAcrossReconnect ==
    [][\A s \in Socks, chunk \in ChunkTexts :
          (/\ currentAssistantMessage.open
           /\ streamSock # s
           /\ RecvChunk(s, chunk)) =>
             (streamSock' = s /\ currentAssistantMessage'.raw = chunk)]_vars

\* C19: when a request for the conversation list fails (at page load, or in
\* the refresh of a delete), a notice is shown and the sidebar list stays as
\* it was.
C19_ListFailureSurfaced ==
    [][\A result \in ListResults :
          (/\ ~result.ok
           /\ \/ BootListReturns(result)
              \/ \E f \in Flows : DeleteListReturns(f, result)) =>
             (effects'.toasts # <<>> /\ sidebar' = sidebar)]_vars

\* C18: a delete flow whose conversation the directory has deleted already
\* (by a flow that was in flight at the same time) goes on as a successful
\* delete does, to the refresh of the list, and shows no failure notice.
C18_DeleteOfDeletedSucceeds ==
    [][\A f \in Flows :
          (/\ flows[f].pc = "awaitDelete"
           /\ flows[f].id \in deleted
           /\ flows'[f].pc # "awaitDelete") =>
             (/\ flows'[f].pc = "awaitList"
              /\ effects'.toasts # <<"Failed to delete conversation">>)]_vars

\* the message at position i is not the one being streamed
Settled(i) == ~(currentAssistantMessage.open /\ currentAssistantMessage.pos = i)

\* a frame of the kinds chunk, complete, typing, error, user_message
StreamFrame ==
    \/ \E s \in Socks, chunk \in ChunkTexts : RecvChunk(s, chunk)
    \/ \E s \in Socks : RecvComplete(s)
    \/ \E s \in Socks, b \in BOOLEAN : RecvTyping(s, b)
    \/ \E s \in Socks, text \in ErrorTexts : RecvError(s, text)
    \/ \E s \in Socks, text \in UserTexts : RecvUserMessage(s, text)

\* C21: a complete frees the streaming slot, turns the typing indicator off
\* and leaves the displayed messages as they are (with no stream open it
\* changes nothing else at all); a chunk that finds the slot free opens a new
\* message at the end of the list; and no chunk, complete, typing, error or
\* user_message frame changes a displayed message that is not the one being
\* streamed.
C21_FinalizedIsImmutable ==
    [][/\ \A s \in Socks :
             RecvComplete(s) =>
                /\ ~currentAssistantMessage'.open
                /\ typingHidden'
                /\ messages' = messages /\ welcome' = welcome
                /\ currentConversationId' = currentConversationId
                /\ ~currentAssistantMessage.open =>
                      currentAssistantMessage' = currentAssistantMessage
       /\ \A s \in Socks, chunk \in ChunkTexts :
             (RecvChunk(s, chunk) /\ ~currentAssistantMessage.open) =>
                /\ messages' = Append(messages, AssistantEntry(chunk))
                /\ currentAssistantMessage'.pos = Len(messages) + 1
       /\ StreamFrame =>
             \A i \in 1..Len(messages) :
                Settled(i) => (Len(messages') >= i /\ messages'[i] = messages[i])]_vars

\* the reply "a" was finalized and the next chunk has opened a second message
C21_Witness ==
    /\ messages = <<AssistantEntry(<<"a">>), AssistantEntry(<<" ", "b">>)>>
    /\ currentAssistantMessage = [open |-> TRUE, pos |-> 2, raw |-> <<" ", "b">>]
    /\ arrived = << <<" ", "b">> >>

\* C22: a user_message frame appends one user message, with the text of the
\* frame, at the end of the displayed messages.
C22_EchoAppended ==
    [][\A s \in Socks, text \in UserTexts :
          RecvUserMessage(s, text) =>
             messages' = Append(messages, UserEntry(text))]_vars

\* C23: a streaming message that is open is an element of the displayed
\* messages, and shows the content received for it.
C23_OpenStreamDisplayed ==
    currentAssistantMessage.open =>
        /\ currentAssistantMessage.pos \in 1..Len(messages)
        /\ messages[currentAssistantMessage.pos] =
               AssistantEntry(currentAssistantMessage.raw)

\* sockets that are connecting or open, and reconnect timers not yet fired
LiveSocks == { s \in Socks : sock[s] \in {"connecting", "open"} }
PendingReconnects == { s \in Socks : reconnectTimer[s].st = "pending" }

\* C24: under open, error, close and timer events alone, at most one socket
\* is connecting or open, it is the one the global references, and the
\* number of such sockets plus the number of pending reconnect timers is at
\* most one.
C24_OneAttemptAtATime ==
    /\ Cardinality(LiveSocks) + Cardinality(PendingReconnects) <= 1
    /\ LiveSocks \subseteq {websocket}

\* two sockets failed one after the other and the third is the only one open
C24_Witness ==
    /\ sock[1] = "closed" /\ sock[2] = "closed"
    /\ sock[3] = "open" /\ isConnected
    /\ PendingReconnects = {}

\* C25: while the client is disconnected the status indicator is visible.
C25_DisconnectStaysVisible ==
    ~isConnected => ~status.hidden

\* C27: a delete flow started for one conversation, finding at a later step
\* that another conversation has become the current one, leaves
\* currentConversationId, the streaming message and the displayed messages
\* as they are.
C27_DeleteSparesOtherConversation ==
    [][\A f \in Flows :
          /\ (/\ flows[f].pc = "awaitDelete" /\ flows'[f].pc = "awaitList"
              /\ currentConversationId # flows[f].id) =>
                /\ currentConversationId' = currentConversationId
                /\ currentAssistantMessage' = currentAssistantMessage
          /\ (/\ flows[f].pc = "reset" /\ flows'[f].pc = "idle"
              /\ currentConversationId \notin {NoConv, flows[f].id}) =>
                /\ currentConversationId' = currentConversationId
                /\ currentAssistantMessage' = currentAssistantMessage
                /\ messages' = messages /\ welcome' = welcome]_vars

\* C28: the notice 'Failed to delete conversation' is shown only by the step
\* at which a delete request fails, which changes nothing else.
C28_FailureNoticeMeansFailure ==
    [][effects'.toasts = <<"Failed to delete conversation">> =>
          /\ \E f \in Flows : flows[f].pc = "awaitDelete" /\ flows'[f].pc = "idle"
          /\ deleted' = deleted
          /\ currentConversationId' = currentConversationId
          /\ messages' = messages /\ welcome' = welcome]_vars

\* C26: a chat_message command carries the id of the conversation whose
\* messages are displayed (none for the welcome view of a chat that has no
\* conversation yet) or, while a load_history awaits its history frame, the
\* id of the conversation that was asked for.
C26_MessageGoesToShownConversation ==
    [][\A value \in InputValues :
          (sendMessage(value) /\ effects'.sent # <<>>) =>
             \/ effects'.sent[1].conversation_id = shownConv
             \/ /\ asked # NoAsk
                /\ effects'.sent[1].conversation_id = asked.id]_vars

\* C29: func runs only from the timer, only while a call of the wrapper is
\* still owed its run, exactly wait ticks after the most recent call and
\* with the arguments of that call; and once a call is owed its run, time
\* does not pass beyond wait ticks after it without func running or another
\* call arriving.  So a burst of calls gets one run, wait after its last
\* call.
C29_DebounceRunsOncePerBurst ==
    [][/\ deb'.out # <<>> =>
             /\ later
             /\ deb.owed
             /\ deb.since = deb.wait
             /\ deb'.out = <<deb.last>>
             /\ ~deb'.owed
       /\ (deb.wait # 0 /\ deb.owed /\ deb.since >= deb.wait) =>
             \/ deb'.out = <<deb.last>>
             \/ deb'.calls = deb.calls + 1
       /\ deb.runs <= deb.calls]_vars

\* after a burst of three calls, the last with the argument 2, func has run
\* once, with 2
C29_Witness ==
    /\ deb.wait = MaxWait
    /\ deb.calls = 3 /\ deb.runs = 1
    /\ deb.last = 2 /\ deb.out = <<2>>

====
